---- MODULE Spec2Model ----
(***************************************************************************)
(* Model of species_management/get_species.py.                             *)
(*                                                                         *)
(* Python values are represented as follows.                               *)
(*   - None, True and False are the strings "None", "True" and "False".    *)
(*   - A dict is a function from its keys (strings) to its values; a       *)
(*     missing key is a key outside the DOMAIN.                            *)
(*   - A list is a sequence.                                               *)
(*   - Latitude and longitude are integers in units of 10^-4 degree.       *)
(*   - area_km2 is an integer number of square kilometres.                 *)
(*   - The quotient area_km2 / math.pi is an integer in units of 10^-8     *)
(*     km^2, and the radius an integer in units of 10^-4 km, truncated.    *)
(***************************************************************************)
EXTENDS Integers, Sequences, FiniteSets, TLC

VARIABLES
    pc,         \* position of the current fetch_species invocation
    frame,      \* its local variables, a dict: name -> value (unbound = absent)
    calls,      \* the keyword arguments of each collaborator call it has made
    outcome,    \* what the invocation handed back to its caller
    mpc,        \* position of the __main__ block
    glob,       \* the module's global variables, a dict
    it,         \* index of the next element of the running for loop
    out,        \* the lines printed to standard output
    queries,    \* the arguments of each fetch_species call __main__ has made
    prev        \* the previous completed invocation, as its caller observed it

fvars == <<pc, frame, calls, outcome>>
mvars == <<mpc, glob, it, out, queries>>
vars  == <<pc, frame, calls, outcome, mpc, glob, it, out, queries, prev>>

----------------------------------------------------------------------------
(* Bounds of the model. *)

MaxRows == 2     \* longest "results" list a response carries
MaxArea == 60    \* largest |area_km2| tried on area_to_radius_km

(* Program constants. *)

LAT == 599139            \* 59.9139, in 10^-4 degree
LNG == 107522            \* 10.7522, in 10^-4 degree
AREA_KM2 == 10           \* area_km2=10 of both queries of __main__
PER_PAGE == 200
InvPiE8 == 31830988      \* 1 / math.pi, in units of 10^-8, truncated

None == "None"
True == "True"
False == "False"

----------------------------------------------------------------------------
(* Dicts. *)

EmptyDict == [k \in {} |-> None]

HasKey(d, k) == k \in DOMAIN d

\* d[k] = v
SetItem(d, k, v) == (k :> v) @@ d

\* d without key k
DelItem(d, k) == [x \in DOMAIN d \ {k} |-> d[x]]

\* d.get(k): the value, or None when the key is missing
DictGet(d, k) == IF HasKey(d, k) THEN d[k] ELSE None

\* Python truthiness of None and of strings
Truthy(v) == v \notin {None, ""}

----------------------------------------------------------------------------
(* area_to_radius_km *)

RECURSIVE SqrtSearch(_, _, _)
\* the largest r in lo..hi with r * r <= x, given lo * lo <= x < (hi + 1) ^ 2
SqrtSearch(x, lo, hi) ==
    IF lo >= hi THEN lo
    ELSE LET mid == (lo + hi + 1) \div 2
         IN  IF mid * mid <= x THEN SqrtSearch(x, mid, hi)
                               ELSE SqrtSearch(x, lo, mid - 1)

\* DomainError as it would be if the root clamped a negative argument to zero
DomainErrorClamped(x) == FALSE

\* math.sqrt raises ValueError ("math domain error") on a negative argument
DomainError(x) == x < 0

\* math.sqrt(x) for x in units of 10^-8: the root in units of 10^-4, truncated
math_sqrt(x) == IF x <= 0 THEN 0 ELSE SqrtSearch(x, 0, 46340)

\* area_km2 / math.pi, in units of 10^-8 km^2
AreaOverPi(area_km2) == area_km2 * InvPiE8

\* area_to_radius_km as it would be with the square root forgotten
area_to_radius_km_no_sqrt(area_km2) == AreaOverPi(area_km2) \div 10000

area_to_radius_km(area_km2) == math_sqrt(AreaOverPi(area_km2))

----------------------------------------------------------------------------
(* fetch_species: the parameter set *)

\* BuildParams as it would be with "if threatened:" for "is not None"
BuildParamsTruthy(lat, lng, radius, thr, intro) ==
    LET base == [lat |-> lat, lng |-> lng, radius |-> radius,
                 quality_grade |-> "research", per_page |-> PER_PAGE,
                 page |-> "all"]
        withT == IF thr = True THEN SetItem(base, "threatened", thr) ELSE base
    IN  IF intro = True THEN SetItem(withT, "introduced", intro) ELSE withT

\* BuildParams as it would be with lat and lng exchanged
BuildParamsSwapped(lat, lng, radius, thr, intro) ==
    LET base == [lat |-> lng, lng |-> lat, radius |-> radius,
                 quality_grade |-> "research", per_page |-> PER_PAGE,
                 page |-> "all"]
        withT == IF thr # None THEN SetItem(base, "threatened", thr) ELSE base
    IN  IF intro # None THEN SetItem(withT, "introduced", intro) ELSE withT

\* BuildParams as it would be with one dict shared by all calls (a module
\* level dict, or a mutable default argument): the keys of the call before
\* stay in it
BuildParamsShared(lat, lng, radius, thr, intro) ==
    LET kept == IF "calls" \in DOMAIN prev /\ prev.calls # <<>>
                THEN prev.calls[1] ELSE [k \in {} |-> "None"]
        base == [lat |-> lat, lng |-> lng, radius |-> radius,
                 quality_grade |-> "research", per_page |-> PER_PAGE,
                 page |-> "all"] @@ kept
        withT == IF thr # None THEN SetItem(base, "threatened", thr) ELSE base
    IN  IF intro # None THEN SetItem(withT, "introduced", intro) ELSE withT

BuildParams(lat, lng, radius, thr, intro) ==
    LET base == [lat |-> lat, lng |-> lng, radius |-> radius,
                 quality_grade |-> "research", per_page |-> PER_PAGE,
                 page |-> "all"]
        withT == IF thr # None THEN SetItem(base, "threatened", thr) ELSE base
    IN  IF intro # None THEN SetItem(withT, "introduced", intro) ELSE withT

----------------------------------------------------------------------------
(* fetch_species: the response mapping *)

\* the dict literal of the list comprehension raises KeyError on a row that
\* lacks one of the keys it subscripts
RowRaises(r) ==
    \/ ~HasKey(r, "taxon")
    \/ ~HasKey(r.taxon, "id")
    \/ ~HasKey(r.taxon, "name")
    \/ ~HasKey(r.taxon, "rank")
    \/ ~HasKey(r, "count")

SpeciesRecord(r) ==
    [taxon_id |-> r.taxon.id,
     scientific_name |-> r.taxon.name,
     common_name |-> DictGet(r.taxon, "preferred_common_name"),
     rank |-> r.taxon.rank,
     obs_count |-> r.count]

Returned(v) == [kind |-> "return", value |-> v]
Raised(e) == [kind |-> "raise", exc |-> e]
Pending == [kind |-> "none"]

RECURSIVE ComprehensionReversed(_, _, _)
\* Comprehension as it would be if each record were put in front of the list
ComprehensionReversed(rows, i, acc) ==
    IF i > Len(rows) THEN Returned(acc)
    ELSE IF RowRaises(rows[i]) THEN Raised("KeyError")
    ELSE ComprehensionReversed(rows, i + 1, <<SpeciesRecord(rows[i])>> \o acc)

\* Comprehension as it would be if a KeyError ended the loop and the records
\* built so far were returned
ComprehensionPartial(rows, i, acc) ==
    IF \E n \in i..Len(rows) : RowRaises(rows[n])
    THEN LET bad == CHOOSE n \in i..Len(rows) :
                       /\ RowRaises(rows[n])
                       /\ \A m \in i..(n - 1) : ~RowRaises(rows[m])
         IN  Returned(acc \o [m \in 1..(bad - i) |->
                                SpeciesRecord(rows[i + m - 1])])
    ELSE Returned(acc \o [m \in 1..(Len(rows) - i + 1) |->
                            SpeciesRecord(rows[i + m - 1])])

RECURSIVE Comprehension(_, _, _)
\* the list comprehension over rows, from row i on, acc built so far
Comprehension(rows, i, acc) ==
    IF i > Len(rows) THEN Returned(acc)
    ELSE IF RowRaises(rows[i]) THEN Raised("KeyError")
    ELSE Comprehension(rows, i + 1, Append(acc, SpeciesRecord(rows[i])))

MapResults(resp) ==
    IF ~HasKey(resp, "results") THEN Raised("KeyError")
    ELSE Comprehension(resp.results, 1, <<>>)

----------------------------------------------------------------------------
(* The collaborator, get_observation_species_counts: what it may answer. *)

Fox == [taxon |-> [id |-> 1, name |-> "Vulpes vulpes", rank |-> "species",
                   preferred_common_name |-> "Red fox"],
        count |-> 5]
Lupin == [taxon |-> [id |-> 2, name |-> "Lupinus polyphyllus",
                     rank |-> "species"],
          count |-> 3]
Dandelion == [taxon |-> [id |-> 3, name |-> "Taraxacum", rank |-> "genus",
                         preferred_common_name |-> ""],
              count |-> 7]

GoodRows == {Fox, Lupin, Dandelion}

BadRows ==
    {DelItem(Fox, "taxon"), DelItem(Fox, "count")}
    \cup {SetItem(Fox, "taxon", DelItem(Fox.taxon, k)) :
            k \in {"id", "name", "rank"}}

Rows == GoodRows \cup BadRows

SeqsUpTo(S, n) == UNION {[1..k -> S] : k \in 0..n}

Responses ==
    {[results |-> s] : s \in SeqsUpTo(Rows, MaxRows)}
    \cup {[total_results |-> 0]}

CollaboratorErrors == {"ConnectionError"}

Outcomes == {Returned(r) : r \in Responses}
            \cup {Raised(e) : e \in CollaboratorErrors}

----------------------------------------------------------------------------
(* fetch_species *)

Args(lat, lng, area_km2, thr, intro) ==
    [lat |-> lat, lng |-> lng, area_km2 |-> area_km2,
     threatened |-> thr, introduced |-> intro]

\* the call: the arguments are bound in a fresh frame
Call(a) ==
    /\ pc = "idle"
    /\ pc' = "entry"
    /\ frame' = a
    /\ calls' = <<>>
    /\ outcome' = Pending

\* lines 14-29: the radius, then the parameter dict
Enter ==
    /\ pc = "entry"
    /\ IF DomainError(AreaOverPi(frame.area_km2))
       THEN /\ pc' = "raised"
            /\ outcome' = Raised("ValueError")
            /\ frame' = frame
       ELSE LET radius == area_to_radius_km(frame.area_km2)
                params == BuildParams(frame.lat, frame.lng, radius,
                                      frame.threatened, frame.introduced)
            IN  /\ pc' = "call"
                /\ outcome' = outcome
                /\ frame' = SetItem(SetItem(frame, "radius", radius),
                                    "params", params)
    /\ calls' = calls

\* CallCollaborator as it would be if a failed call were tried again
CallCollaboratorRetry(o) ==
    /\ pc = "call"
    /\ calls' = Append(calls, frame.params)
    /\ IF o.kind = "raise"
       THEN /\ pc' = "call"
            /\ outcome' = outcome
            /\ frame' = frame
       ELSE /\ pc' = "map"
            /\ outcome' = outcome
            /\ frame' = SetItem(frame, "resp", o.value)

\* line 31: the collaborator is called with **params and answers o
CallCollaborator(o) ==
    /\ pc = "call"
    /\ calls' = Append(calls, frame.params)
    /\ IF o.kind = "raise"
       THEN /\ pc' = "raised"
            /\ outcome' = o
            /\ frame' = frame
       ELSE /\ pc' = "map"
            /\ outcome' = outcome
            /\ frame' = SetItem(frame, "resp", o.value)

\* lines 33-42: the list comprehension and the return
MapResponse ==
    /\ pc = "map"
    /\ LET m == MapResults(frame.resp)
       IN  /\ outcome' = m
           /\ pc' = IF m.kind = "return" THEN "returned" ELSE "raised"
    /\ frame' = frame
    /\ calls' = calls

\* the caller takes the result or the exception; the frame is gone
Leave ==
    /\ pc \in {"returned", "raised"}
    /\ pc' = "idle"
    /\ frame' = EmptyDict
    /\ calls' = <<>>
    /\ outcome' = Pending

----------------------------------------------------------------------------
(* Spec: any caller, any arguments, one invocation after another. *)

Coords == {<<LAT, LNG>>, <<-338688, 1512093>>}
FetchAreas == {-AREA_KM2, -1, 0, AREA_KM2}
Flags == {None, True, False}

ArgSets == {Args(c[1], c[2], a, t, i) :
              c \in Coords, a \in FetchAreas, t \in Flags, i \in Flags}

Init ==
    /\ pc = "idle"
    /\ frame = EmptyDict
    /\ calls = <<>>
    /\ outcome = Pending
    /\ mpc = "l49"
    /\ glob = [LAT |-> LAT, LNG |-> LNG]
    /\ it = 1
    /\ out = <<>>
    /\ queries = <<>>
    /\ prev = Pending

CallerCalls == \E a \in ArgSets : Call(a) /\ UNCHANGED <<mvars, prev>>
FetchEnters == Enter /\ UNCHANGED <<mvars, prev>>
CollaboratorAnswers ==
    \E o \in Outcomes : CallCollaborator(o) /\ UNCHANGED <<mvars, prev>>
FetchMaps == MapResponse /\ UNCHANGED <<mvars, prev>>
CallerResumes == Leave /\ UNCHANGED <<mvars, prev>>

Next ==
    \/ CallerCalls
    \/ FetchEnters
    \/ CollaboratorAnswers
    \/ FetchMaps
    \/ CallerResumes

Spec == Init /\ [][Next]_vars

----------------------------------------------------------------------------
(* SpecRadius: area_to_radius_km over a range of areas.  The invocation    *)
(* starts at the function's first line with area_km2 drawn by Init.        *)

RadiusAreas == (0 - MaxArea)..MaxArea

InitRadius ==
    /\ pc = "entry"
    /\ frame \in {Args(LAT, LNG, a, None, None) : a \in RadiusAreas}
    /\ calls = <<>>
    /\ outcome = Pending
    /\ mpc = "l49"
    /\ glob = [LAT |-> LAT, LNG |-> LNG]
    /\ it = 1
    /\ out = <<>>
    /\ queries = <<>>
    /\ prev = Pending

NextRadius == FetchEnters

SpecRadius == InitRadius /\ [][NextRadius]_vars

----------------------------------------------------------------------------
(* SpecMain: the __main__ block. *)

\* DisplayName as it would be without the fallback
DisplayNameCommonOnly(s) == s.common_name

\* s["common_name"] or s["scientific_name"]
DisplayName(s) ==
    IF Truthy(s.common_name) THEN s.common_name ELSE s.scientific_name

\* line 49, the call
MainFetchThreatened ==
    /\ mpc = "l49"
    /\ Call(Args(glob.LAT, glob.LNG, AREA_KM2, True, None))
    /\ mpc' = "l49_wait"
    /\ queries' = Append(queries, frame')
    /\ UNCHANGED <<glob, it, out, prev>>

\* line 49, the assignment
MainBindsThreatened ==
    /\ mpc = "l49_wait"
    /\ pc = "returned"
    /\ glob' = SetItem(glob, "threatened", outcome.value)
    /\ Leave
    /\ mpc' = "l50"
    /\ UNCHANGED <<it, out, queries, prev>>

\* MainFetchIntroduced as it would be with line 49's keyword copied
MainFetchIntroducedCopied ==
    /\ mpc = "l50"
    /\ Call(Args(glob.LAT, glob.LNG, AREA_KM2, True, None))
    /\ mpc' = "l50_wait"
    /\ queries' = Append(queries, frame')
    /\ UNCHANGED <<glob, it, out, prev>>

\* line 50, the call
MainFetchIntroduced ==
    /\ mpc = "l50"
    /\ Call(Args(glob.LAT, glob.LNG, AREA_KM2, None, True))
    /\ mpc' = "l50_wait"
    /\ queries' = Append(queries, frame')
    /\ UNCHANGED <<glob, it, out, prev>>

\* line 50, the assignment
MainBindsIntroduced ==
    /\ mpc = "l50_wait"
    /\ pc = "returned"
    /\ glob' = SetItem(glob, "introduced", outcome.value)
    /\ Leave
    /\ mpc' = "l52"
    /\ UNCHANGED <<it, out, queries, prev>>

\* an exception out of either call is caught nowhere: the process ends
MainDies ==
    /\ mpc \in {"l49_wait", "l50_wait"}
    /\ pc = "raised"
    /\ Leave
    /\ mpc' = "died"
    /\ UNCHANGED <<glob, it, out, queries, prev>>

\* line 52
PrintThreatenedHeader ==
    /\ mpc = "l52"
    /\ out' = out \o <<"", "Threatened species:">>
    /\ it' = 1
    /\ mpc' = "l53"
    /\ UNCHANGED <<fvars, glob, queries, prev>>

\* lines 53-54, one iteration
PrintThreatened ==
    /\ mpc = "l53"
    /\ it <= Len(glob.threatened)
    /\ glob' = SetItem(glob, "s", glob.threatened[it])
    /\ out' = Append(out, DisplayName(glob'.s))
    /\ it' = it + 1
    /\ UNCHANGED <<fvars, mpc, queries, prev>>

\* line 56, once the first loop is exhausted
PrintIntroducedHeader ==
    /\ mpc = "l53"
    /\ it > Len(glob.threatened)
    /\ out' = out \o <<"", "Introduced species:">>
    /\ it' = 1
    /\ mpc' = "l57"
    /\ UNCHANGED <<fvars, glob, queries, prev>>

\* lines 57-58, one iteration
PrintIntroduced ==
    /\ mpc = "l57"
    /\ it <= Len(glob.introduced)
    /\ glob' = SetItem(glob, "s", glob.introduced[it])
    /\ out' = Append(out, DisplayName(glob'.s))
    /\ it' = it + 1
    /\ UNCHANGED <<fvars, mpc, queries, prev>>

\* the second loop is exhausted: end of the script
MainExits ==
    /\ mpc = "l57"
    /\ it > Len(glob.introduced)
    /\ mpc' = "exit"
    /\ UNCHANGED <<fvars, glob, it, out, queries, prev>>

NextMain ==
    \/ MainFetchThreatened
    \/ MainBindsThreatened
    \/ MainFetchIntroduced
    \/ MainBindsIntroduced
    \/ MainDies
    \/ FetchEnters
    \/ CollaboratorAnswers
    \/ FetchMaps
    \/ PrintThreatenedHeader
    \/ PrintThreatened
    \/ PrintIntroducedHeader
    \/ PrintIntroduced
    \/ MainExits

SpecMain == Init /\ [][NextMain]_vars

----------------------------------------------------------------------------
(* SpecPair: a caller that remembers what it saw of the previous           *)
(* invocation when it makes the next one.                                  *)

ArgNames == {"lat", "lng", "area_km2", "threatened", "introduced"}

PairArgSets == {Args(LAT, LNG, a, t, i) :
                  a \in {-1, AREA_KM2}, t \in Flags, i \in Flags}

PairResponses ==
    {[results |-> s] :
       s \in {<<>>, <<Fox>>, <<Lupin, Fox>>, <<Fox, DelItem(Fox, "count")>>}}
    \cup {[total_results |-> 0]}

PairOutcomes == {Returned(r) : r \in PairResponses}
                \cup {Raised(e) : e \in CollaboratorErrors}

\* what the caller saw of an invocation that has ended
Observed ==
    [args |-> [k \in ArgNames |-> frame[k]],
     calls |-> calls,
     resp |-> IF HasKey(frame, "resp") THEN <<frame.resp>> ELSE <<>>,
     outcome |-> outcome]

PairCalls == \E a \in PairArgSets : Call(a) /\ UNCHANGED <<mvars, prev>>
PairCollaboratorAnswers ==
    \E o \in PairOutcomes : CallCollaborator(o) /\ UNCHANGED <<mvars, prev>>
PairResumes ==
    /\ Leave
    /\ prev' = Observed
    /\ UNCHANGED mvars

NextPair ==
    \/ PairCalls
    \/ FetchEnters
    \/ PairCollaboratorAnswers
    \/ FetchMaps
    \/ PairResumes

SpecPair == Init /\ [][NextPair]_vars

----------------------------------------------------------------------------
(* The properties.  What a well-formed row is, and what the script is to   *)
(* print, are stated here on their own and not through RowRaises,          *)
(* SpeciesRecord or DisplayName.                                           *)

Ended == pc \in {"returned", "raised"}

\* a row that has every field the record is built from
RowWellFormed(r) ==
    /\ {"taxon", "count"} \subseteq DOMAIN r
    /\ {"id", "name", "rank"} \subseteq DOMAIN r.taxon

ResponseWellFormed(resp) ==
    /\ "results" \in DOMAIN resp
    /\ \A n \in 1..Len(resp.results) : RowWellFormed(resp.results[n])

\* an optional filter is sent if and only if it was given, with its value
FilterSent(p, key, arg) ==
    /\ (key \in DOMAIN p) <=> (arg # "None")
    /\ (key \in DOMAIN p) => (p[key] = arg)

(* C1: each parameter set handed to the collaborator holds "threatened"    *)
(* if and only if the threatened argument is not None, then with the       *)
(* argument's value, and likewise "introduced".                            *)
C1_OptionalFilters ==
    \A n \in 1..Len(calls) :
        /\ FilterSent(calls[n], "threatened", frame.threatened)
        /\ FilterSent(calls[n], "introduced", frame.introduced)

\* threatened=True alone was sent: "threatened" is true, "introduced" absent
C1_Witness ==
    /\ Len(calls) = 1
    /\ frame.threatened = "True"
    /\ frame.introduced = "None"
    /\ "threatened" \in DOMAIN calls[1]
    /\ calls[1].threatened = "True"
    /\ "introduced" \notin DOMAIN calls[1]

(* C2: on a response whose rows are all well formed, fetch_species returns *)
(* one record per row, in the rows' order, with taxon_id, scientific_name, *)
(* rank and obs_count taken from the row; the mock response of the         *)
(* specification gives the record of the specification.                    *)
C2_OneRecordPerRow ==
    (Ended /\ "resp" \in DOMAIN frame /\ ResponseWellFormed(frame.resp)) =>
        /\ pc = "returned"
        /\ outcome.kind = "return"
        /\ Len(outcome.value) = Len(frame.resp.results)
        /\ \A n \in 1..Len(frame.resp.results) :
             LET row == frame.resp.results[n]
                 rec == outcome.value[n]
             IN  /\ rec.taxon_id = row.taxon.id
                 /\ rec.scientific_name = row.taxon.name
                 /\ rec.rank = row.taxon.rank
                 /\ rec.obs_count = row.count
        /\ (frame.resp = [results |-> <<Fox>>]) =>
             outcome.value = <<[taxon_id |-> 1,
                                scientific_name |-> "Vulpes vulpes",
                                common_name |-> "Red fox",
                                rank |-> "species",
                                obs_count |-> 5]>>

\* two different rows were mapped
C2_Witness ==
    /\ pc = "returned"
    /\ Len(frame.resp.results) = 2
    /\ Len(outcome.value) = 2
    /\ outcome.value[1].taxon_id = 2
    /\ outcome.value[2].taxon_id = 1

\* the lines printed under one header, for the records printed so far
PrintedAsClaimed(recs, first, count) ==
    \A n \in 1..count :
        /\ recs[n].common_name = "None" =>
             out[first + n] = recs[n].scientific_name
        /\ recs[n].common_name \notin {"None", ""} =>
             out[first + n] = recs[n].common_name

(* C3: a row whose taxon has no preferred_common_name still gives a record *)
(* (the call does not fail), with common_name None, and the script prints  *)
(* that record's scientific_name; a row whose preferred_common_name is     *)
(* present and not empty gives common_name equal to it, and the script     *)
(* prints the common name.                                                 *)
C3_CommonNameFallback ==
    /\ (Ended /\ "resp" \in DOMAIN frame /\ ResponseWellFormed(frame.resp)) =>
         /\ pc = "returned"
         /\ Len(outcome.value) = Len(frame.resp.results)
         /\ \A n \in 1..Len(frame.resp.results) :
              LET t == frame.resp.results[n].taxon
                  rec == outcome.value[n]
              IN  /\ "preferred_common_name" \notin DOMAIN t =>
                       rec.common_name = "None"
                  /\ ("preferred_common_name" \in DOMAIN t
                        /\ t.preferred_common_name # "") =>
                       rec.common_name = t.preferred_common_name
    /\ mpc = "l53" => PrintedAsClaimed(glob.threatened, 2, it - 1)
    /\ mpc \in {"l57", "exit"} =>
         /\ PrintedAsClaimed(glob.threatened, 2, Len(glob.threatened))
         /\ PrintedAsClaimed(glob.introduced, 4 + Len(glob.threatened),
                             IF mpc = "exit" THEN Len(glob.introduced)
                                             ELSE it - 1)

\* a record without common name and one with it were both printed
C3_Witness ==
    /\ mpc = "exit"
    /\ Len(glob.threatened) = 2
    /\ glob.threatened[1].common_name = "None"
    /\ out[3] = "Lupinus polyphyllus"
    /\ glob.threatened[2].common_name = "Red fox"
    /\ out[4] = "Red fox"

(* C4: an invocation of fetch_species calls the collaborator at most once, *)
(* and exactly once as soon as it has got past the call, whether the call  *)
(* succeeded or failed.                                                    *)
C4_OneCollaboratorCall ==
    /\ Len(calls) <= 1
    /\ pc \in {"entry", "call"} => Len(calls) = 0
    /\ pc \in {"map", "returned"} => Len(calls) = 1
    /\ (pc = "raised" /\ outcome.exc # "ValueError") => Len(calls) = 1

\* the one call failed and the invocation ended
C4_Witness ==
    /\ pc = "raised"
    /\ outcome.exc = "ConnectionError"
    /\ Len(calls) = 1

(* C5: each parameter set handed to the collaborator has quality_grade     *)
(* "research", per_page 200, page "all", the caller's lat and lng, radius  *)
(* area_to_radius_km(area_km2), and no key beyond these six and the two    *)
(* optional filters.                                                       *)
C5_FixedParams ==
    \A n \in 1..Len(calls) :
        LET p == calls[n]
        IN  /\ {"lat", "lng", "radius", "quality_grade", "per_page", "page"}
                 \subseteq DOMAIN p
            /\ DOMAIN p \subseteq
                 {"lat", "lng", "radius", "quality_grade", "per_page", "page",
                  "threatened", "introduced"}
            /\ p.quality_grade = "research"
            /\ p.per_page = 200
            /\ p.page = "all"
            /\ p.lat = frame.lat
            /\ p.lng = frame.lng
            /\ p.radius = area_to_radius_km(frame.area_km2)

\* a call for the other coordinate and 10 km2 was sent
C5_Witness ==
    /\ Len(calls) = 1
    /\ frame.lat = -338688
    /\ calls[1].lat = -338688
    /\ calls[1].lng = 1512093
    /\ calls[1].radius = 17841

(* C6: with a negative area_km2 the invocation ends in the ValueError of   *)
(* the square root, before any parameter set is built and before any       *)
(* collaborator call, and returns nothing.                                 *)
C6_NegativeArea ==
    (pc \notin {"idle", "entry"} /\ frame.area_km2 < 0) =>
        /\ pc = "raised"
        /\ outcome = [kind |-> "raise", exc |-> "ValueError"]
        /\ calls = <<>>
        /\ "params" \notin DOMAIN frame

\* an invocation with area_km2 = -1 has ended
C6_Witness ==
    /\ pc = "raised"
    /\ frame.area_km2 = -1
    /\ outcome.exc = "ValueError"
    /\ calls = <<>>

(* C7: if the collaborator call fails, the response has no "results", or   *)
(* one row lacks a required field, the invocation ends by raising and the  *)
(* caller gets no list, not even the records of the rows before.           *)
C7_ErrorsPropagate ==
    Ended =>
        /\ (Len(calls) = 1 /\ "resp" \notin DOMAIN frame) =>
             /\ pc = "raised"
             /\ outcome.kind = "raise"
             /\ outcome.exc \in CollaboratorErrors
        /\ ("resp" \in DOMAIN frame /\ ~ResponseWellFormed(frame.resp)) =>
             /\ pc = "raised"
             /\ outcome = [kind |-> "raise", exc |-> "KeyError"]
        /\ pc = "raised" =>
             /\ outcome.kind = "raise"
             /\ "value" \notin DOMAIN outcome

\* a well-formed row followed by a malformed one
C7_Witness ==
    /\ pc = "raised"
    /\ "resp" \in DOMAIN frame
    /\ "results" \in DOMAIN frame.resp
    /\ Len(frame.resp.results) = 2
    /\ RowWellFormed(frame.resp.results[1])
    /\ ~RowWellFormed(frame.resp.results[2])

(* C8: for area_km2 >= 0 the radius is sqrt(area_km2 / pi), to the         *)
(* precision of the model (10^-4 km, truncated); it is never negative, it  *)
(* is 0 for area 0, and 1.7841 for area 10.                                *)
C8_Radius ==
    (pc # "entry" /\ frame.area_km2 >= 0) =>
        /\ pc = "call"
        /\ LET x == frame.area_km2 * 31830988
               r == frame.radius
           IN  /\ r >= 0
               /\ r * r <= x
               /\ x < (r + 1) * (r + 1)
               /\ frame.area_km2 = 0 => r = 0
               /\ frame.area_km2 = 10 => r = 17841

\* the radius of 10 km2 was computed
C8_Witness ==
    /\ pc = "call"
    /\ frame.area_km2 = 10
    /\ frame.radius = 17841

(* C9: what an invocation sends and hands back depends on its own          *)
(* arguments and its own response only: equal arguments give equal         *)
(* parameter sets, equal arguments and equal responses give equal results, *)
(* and after a call with threatened=True a call with introduced=True alone *)
(* sends no "threatened".                                                  *)
C9_NoStateBetweenCalls ==
    (Ended /\ prev # Pending) =>
        /\ Observed.args = prev.args => Observed.calls = prev.calls
        /\ (Observed.args = prev.args /\ Observed.resp = prev.resp) =>
             Observed.outcome = prev.outcome
        /\ (/\ prev.args.threatened = "True"
            /\ frame.threatened = "None"
            /\ frame.introduced = "True") =>
             \A n \in 1..Len(calls) : "threatened" \notin DOMAIN calls[n]

\* threatened=True was sent, then introduced=True alone
C9_Witness ==
    /\ pc = "returned"
    /\ prev # Pending
    /\ prev.args.threatened = "True"
    /\ Len(prev.calls) = 1
    /\ "threatened" \in DOMAIN prev.calls[1]
    /\ frame.threatened = "None"
    /\ frame.introduced = "True"
    /\ Len(calls) = 1

\* what the script prints for one record
LineAsClaimed(rec) ==
    IF rec.common_name \in {"None", ""} THEN rec.scientific_name
                                        ELSE rec.common_name

\* a header and one line per record
BlockAsClaimed(header, recs) ==
    <<"", header>> \o [n \in 1..Len(recs) |-> LineAsClaimed(recs[n])]

IsPrefix(s, t) ==
    /\ Len(s) <= Len(t)
    /\ \A n \in 1..Len(s) : s[n] = t[n]

(* C10: the script makes exactly two queries, both for LAT, LNG and 10     *)
(* km2, first threatened=True alone, then introduced=True alone; nothing   *)
(* is printed before both have returned, and nothing at all if one fails;  *)
(* it prints the threatened header and one line per threatened record,     *)
(* then the introduced header and one line per introduced record.          *)
C10_MainProgram ==
    /\ Len(queries) <= 2
    /\ Len(queries) >= 1 =>
         queries[1] = [lat |-> 599139, lng |-> 107522, area_km2 |-> 10,
                       threatened |-> "True", introduced |-> "None"]
    /\ Len(queries) = 2 =>
         queries[2] = [lat |-> 599139, lng |-> 107522, area_km2 |-> 10,
                       threatened |-> "None", introduced |-> "True"]
    /\ out # <<>> =>
         /\ Len(queries) = 2
         /\ pc = "idle"
         /\ {"threatened", "introduced"} \subseteq DOMAIN glob
         /\ IsPrefix(out,
                     BlockAsClaimed("Threatened species:", glob.threatened)
                     \o BlockAsClaimed("Introduced species:", glob.introduced))
    /\ mpc = "died" => out = <<>>
    /\ mpc = "exit" =>
         /\ Len(queries) = 2
         /\ out = BlockAsClaimed("Threatened species:", glob.threatened)
                  \o BlockAsClaimed("Introduced species:", glob.introduced)

\* the script has printed two threatened and one introduced species
C10_Witness ==
    /\ mpc = "exit"
    /\ Len(queries) = 2
    /\ Len(glob.threatened) = 2
    /\ Len(glob.introduced) = 1
    /\ Len(out) = 7

====
